---- MODULE Spec2Model ----
(***************************************************************************)
(* LeNet-5 on MNIST (src/LeNet-5.py): the script's stages, the training    *)
(* loop it calls, the LeNet5 module's forward pass over tensor shapes, and *)
(* the plateau learning-rate schedule it constructs.                       *)
(*                                                                         *)
(* A tensor is abstracted to its shape and, per example of the batch, one  *)
(* digest (a small integer standing for the example's values).  A learning *)
(* rate is an integer number of 1e-9 units, an accuracy an integer percent.*)
(***************************************************************************)
EXTENDS Integers, Sequences, FiniteSets, TLC

VARIABLES
    pc,                   \* the stage of the script that runs next
    model,                \* the LeNet5 instance: hyper-parameters, parameters, mode
    optimizer,            \* torch.optim.SGD: its param_groups' lr
    scheduler,            \* ReduceLROnPlateau: best, num_bad_epochs, last_epoch
    epoch,                \* train_model: epochs completed
    batch_idx,            \* train_model: batches of the current epoch completed
    logits,               \* train_model: the forward output of the current batch
    minibatch_loss_list,  \* train_model: one loss per batch
    train_acc_list,       \* train_model: one accuracy per epoch
    valid_acc_list,       \* train_model: one accuracy per epoch
    mat,                  \* the confusion matrix (rows: true class)
    stages,               \* the stages completed so far, in order
    call_x,               \* forward called on its own: the input
    call_feat,            \* forward called on its own: the feature extractor's output
    call_out,             \* forward called on its own: the logits
    memo,                 \* forward called repeatedly: the calls remembered
    cm_test,              \* compute_confusion_matrix on its own: the test labels
    cm_valid,             \* compute_confusion_matrix on its own: the validation labels
    cm_pred               \* compute_confusion_matrix on its own: the predictions

trainVars == <<epoch, batch_idx, logits, minibatch_loss_list, train_acc_list, valid_acc_list>>
callVars == <<call_x, call_feat, call_out, memo>>
cmVars == <<cm_test, cm_valid, cm_pred>>
vars == <<pc, model, optimizer, scheduler, trainVars, mat, stages, callVars, cmVars>>

----------------------------------------------------------------------------
(* Program constants *)

NUM_EPOCHS == 15

\* lr = 0.1, in units of 1e-9
InitialLr == 100000000

\* LeNet5(grayscale=True, num_classes=10)
NumClasses == 10

\* torchvision.transforms.Resize((32,32))
ResizeTo == 32

----------------------------------------------------------------------------
(* Bounds of the model *)

\* len(train_loader), len(valid_loader), len(test_loader)
TrainBatches == 2
ValidBatches == 1
TestBatches == 1

\* examples per batch (BATCH_SIZE = 256 in the script)
ExamplesPerBatch == 2

\* digests are integers modulo DigestMod
DigestMod == 7

\* forward called on its own: batch sizes 1..MaxBatch, heights 1..MaxH, widths 1..MaxW
MaxBatch == 2
MaxH == 34
MaxW == 114

\* forward called on its own for determinism: parameter values and inputs
MaxParams == 1
MaxPix == 2

\* compute_confusion_matrix on its own: examples in the test set
MaxTest == 2

----------------------------------------------------------------------------
(* Tensors *)

Tensor(shape, data) == [ok |-> TRUE, shape |-> shape, data |-> data]

\* a failed library call (a RuntimeError that ends the process)
ErrT == [ok |-> FALSE, shape |-> <<>>, data |-> <<>>]

\* the element of a one-element set: Value({e(v) : v \in {d}}) is e with v bound to
\* the value of d, which is computed once
Value(S) == CHOOSE v \in S : TRUE

RECURSIVE Prod(_)
Prod(s) == IF s = <<>> THEN 1 ELSE Head(s) * Prod(Tail(s))

Digest(n) == n % DigestMod

----------------------------------------------------------------------------
(* torch.nn layers, as LeNet5.__init__ instantiates them *)

Conv2d(in_channels, out_channels, kernel_size) ==
    [kind |-> "Conv2d", in |-> in_channels, out |-> out_channels, k |-> kernel_size]
Tanh == [kind |-> "Tanh", in |-> 0, out |-> 0, k |-> 0]
MaxPool2d(kernel_size) == [kind |-> "MaxPool2d", in |-> 0, out |-> 0, k |-> kernel_size]
Linear(in_features, out_features) ==
    [kind |-> "Linear", in |-> in_features, out |-> out_features, k |-> 0]

\* Conv2d output size: stride 1, padding 0, dilation 1 (the defaults)
ConvOut(h, k) == ((h - (k - 1) - 1) \div 1) + 1

PoolOutCeil(h, k) == ((h - k + (k - 1)) \div k) + 1

\* MaxPool2d output size: stride = kernel_size, padding 0, ceil_mode False (the defaults)
PoolOut(h, k) == ((h - k) \div k) + 1

\* one layer applied to tensor t by the module whose state is self
ApplyLayer(layer, t, self) ==
    IF ~t.ok THEN ErrT
    ELSE CASE layer.kind = "Conv2d" ->
                IF /\ Len(t.shape) = 4
                   /\ t.shape[2] = layer.in
                   /\ t.shape[3] >= layer.k
                   /\ t.shape[4] >= layer.k
                THEN Tensor(<<t.shape[1], layer.out,
                              ConvOut(t.shape[3], layer.k), ConvOut(t.shape[4], layer.k)>>,
                            [i \in 1..Len(t.data) |-> Digest(t.data[i] * t.data[i] + self.params + 1)])
                ELSE ErrT
           [] layer.kind = "Tanh" ->
                Tensor(t.shape, [i \in 1..Len(t.data) |-> Digest(2 * t.data[i] + 1)])
           [] layer.kind = "MaxPool2d" ->
                IF /\ Len(t.shape) = 4
                   /\ PoolOut(t.shape[3], layer.k) >= 1
                   /\ PoolOut(t.shape[4], layer.k) >= 1
                THEN Tensor(<<t.shape[1], t.shape[2],
                              PoolOut(t.shape[3], layer.k), PoolOut(t.shape[4], layer.k)>>,
                            t.data)
                ELSE ErrT
           [] layer.kind = "Linear" ->
                IF Len(t.shape) >= 1 /\ t.shape[Len(t.shape)] = layer.in
                THEN Tensor([i \in 1..Len(t.shape) |->
                                IF i = Len(t.shape) THEN layer.out ELSE t.shape[i]],
                            [i \in 1..Len(t.data) |-> Digest(t.data[i] * self.params + t.data[i] + 1)])
                ELSE ErrT
           [] OTHER -> ErrT

\* torch.nn.Sequential: the layers in order
RECURSIVE Sequential(_, _, _)
Sequential(layers, t, self) ==
    IF layers = <<>> THEN t
    ELSE Value({Sequential(Tail(layers), out, self) :
                   out \in {ApplyLayer(Head(layers), t, self)}})

\* torch.flatten(x, 1)
flatten(t) ==
    IF ~t.ok \/ Len(t.shape) < 2 THEN ErrT
    ELSE Tensor(<<t.shape[1], Prod(SubSeq(t.shape, 2, Len(t.shape)))>>, t.data)

----------------------------------------------------------------------------
(* class LeNet5 *)

in_channels_swapped(grayscale) == IF grayscale THEN 3 ELSE 1

in_channels(grayscale) == IF grayscale THEN 1 ELSE 3

\* LeNet5.__init__: the module's state
LeNet5(num_classes, grayscale, init) ==
    [built |-> TRUE, grayscale |-> grayscale, num_classes |-> num_classes,
     params |-> init, training |-> TRUE]

features(self) ==
    << Conv2d(in_channels(self.grayscale), 6, 5),
       Tanh,
       MaxPool2d(2),
       Conv2d(6, 16, 5),
       Tanh,
       MaxPool2d(2) >>

classifier(self) ==
    << Linear(16 * 5 * 5, 120),
       Tanh,
       Linear(120, 84),
       Tanh,
       Linear(84, self.num_classes) >>

\* forward with a Dropout in front of the classifier: active in training mode only
forward_dropout(self, x) ==
    Value({ [feat |-> x1,
             logits |-> Sequential(classifier(self),
                                   IF self.training
                                   THEN Tensor(x2.shape, [i \in 1..Len(x2.data) |->
                                                             Digest(x2.data[i] + 1)])
                                   ELSE x2,
                                   self),
             self |-> self] :
            <<x1, x2>> \in {<<f, flatten(f)>> : f \in {Sequential(features(self), x, self)}} })

\* forward that keeps a running statistic in the module's parameters
forward_stateful(self, x) ==
    Value({ [feat |-> x1,
             logits |-> Sequential(classifier(self), x2, self),
             self |-> [self EXCEPT !.params = self.params + 1]] :
            <<x1, x2>> \in {<<f, flatten(f)>> : f \in {Sequential(features(self), x, self)}} })

\* LeNet5.forward: the logits, and the module's state after the call
forward(self, x) ==
    Value({ [feat |-> x1,
             logits |-> Sequential(classifier(self), x2, self),
             self |-> self] :
            <<x1, x2>> \in {<<f, flatten(f)>> : f \in {Sequential(features(self), x, self)}} })

----------------------------------------------------------------------------
(* get_dataloaders_mnist: three finite, restartable batch sources *)

Splits == {"train", "valid", "test"}

NumBatches(split) ==
    CASE split = "train" -> TrainBatches
      [] split = "valid" -> ValidBatches
      [] OTHER -> TestBatches

SplitOffset(split) ==
    CASE split = "train" -> 0
      [] split = "valid" -> 1
      [] OTHER -> 2

Classes == 0..(NumClasses - 1)

\* example i of batch b: its pixels' digest and its label
Pix(split, b, i) == Digest(SplitOffset(split) + 2 * b + i)
Label(split, b, i) == (SplitOffset(split) + b + 2 * i) % DigestMod

\* a batch: images resized to 32x32, one channel, and their labels
Batch(split, b) ==
    [x |-> Tensor(<<ExamplesPerBatch, 1, ResizeTo, ResizeTo>>,
                  [i \in 1..ExamplesPerBatch |-> Pix(split, b, i)]),
     y |-> [i \in 1..ExamplesPerBatch |-> Label(split, b, i)]]

\* len(loader)
LoaderLen(split) == NumBatches(split)

----------------------------------------------------------------------------
(* torch.optim.SGD and ReduceLROnPlateau(factor=0.1, mode='max') *)

\* ReduceLROnPlateau defaults: patience=10, threshold=1e-4 (rel), eps=1e-8, min_lr=0
Patience == 10
FactorDen == 10
ThresholdDen == 10000
Eps == 10

NewScheduler == [best |-> -1, num_bad_epochs |-> 0, last_epoch |-> 0]

\* mode 'max', threshold_mode 'rel': a > best * (1 + threshold); best starts at -inf
IsBetter(a, best) == best < 0 \/ a * ThresholdDen > best * (ThresholdDen + 1)

Max(a, b) == IF a >= b THEN a ELSE b

\* _reduce_lr: new_lr = max(old_lr * factor, min_lr), taken when it differs by more than eps
ReduceLr(lr) ==
    LET new_lr == Max(lr \div FactorDen, 0)
    IN  IF lr - new_lr > Eps THEN new_lr ELSE lr

\* ReduceLROnPlateau.step(metric): the scheduler's state and the optimizer's lr after it
SchedulerStep(s, lr, metric) ==
    LET better == IsBetter(metric, s.best)
        bad == IF better THEN 0 ELSE s.num_bad_epochs + 1
        reduce == bad > Patience
    IN  [sched |-> [best |-> IF better THEN metric ELSE s.best,
                    num_bad_epochs |-> IF reduce THEN 0 ELSE bad,
                    last_epoch |-> s.last_epoch + 1],
         lr |-> IF reduce THEN ReduceLr(lr) ELSE lr]

\* optimizer.step(): the parameters after one SGD update
SGDStep(params, loss, lr) == params + 1

\* torch.nn.functional.cross_entropy(logits, targets).item()
CrossEntropy(t, y) ==
    LET RECURSIVE Sum(_)
        Sum(i) == IF i = 0 THEN 0 ELSE Digest(t.data[i] + y[i] + Sum(i - 1))
    IN  IF t.ok THEN Sum(Len(t.data)) ELSE -1

\* torch.max(logits, 1): the predicted label of each example
Predict(t, self) == [i \in 1..Len(t.data) |-> t.data[i] % self.num_classes]

----------------------------------------------------------------------------
(* helper_evaluation, helper_plotting: the model run over a loader *)

\* the model run over batches b..len(loader) of a split, without gradients:
\* the module's state after it, the predictions and the targets
RECURSIVE EvalLoader(_, _, _)
EvalLoader(self, split, b) ==
    IF b > LoaderLen(split)
    THEN [self |-> self, pred |-> <<>>, target |-> <<>>]
    ELSE Value({ [self |-> rest.self,
                  pred |-> Predict(r.logits, self) \o rest.pred,
                  target |-> Batch(split, b).y \o rest.target] :
                 <<r, rest>> \in {<<f, EvalLoader(f.self, split, b + 1)>> :
                                    f \in {forward(self, Batch(split, b).x)}} })

Count(pred, target, t, p) ==
    Cardinality({i \in 1..Len(target) : target[i] = t /\ pred[i] = p})

\* compute_accuracy: the percentage of examples predicted right
Accuracy(pred, target) ==
    (100 * Cardinality({i \in 1..Len(target) : target[i] = pred[i]})) \div Len(target)

\* compute_confusion_matrix: predicted-vs-actual counts, rows the true class
ConfusionMatrix(pred, target) ==
    [t \in Classes |-> [p \in Classes |-> Count(pred, target, t, p)]]

ZeroMat == [t \in Classes |-> [p \in Classes |-> 0]]

----------------------------------------------------------------------------
(* The script: its statements in order, and what train_model is called with *)

ScriptEvalBeforePlots ==
    << "load", "check", "construct", "optimizer", "train",
       "confusion", "plot_loss", "plot_acc", "show_examples", "plot_cm", "done" >>

Script ==
    << "load", "check", "construct", "optimizer", "train",
       "plot_loss", "plot_acc", "show_examples", "confusion", "plot_cm", "done" >>

After(stmt) ==
    LET i == CHOOSE j \in 1..Len(Script) : Script[j] = stmt
    IN  Script[i + 1]

num_epochs_short == NUM_EPOCHS - 1

\* train_model(num_epochs = NUM_EPOCHS, ...)
num_epochs == NUM_EPOCHS

train_loader_valid == "valid"

\* train_model(train_loader = train_loader, ...)
train_loader_arg == "train"

\* train_model(...) is called without the scheduler
scheduler_arg == FALSE

cm_loader_valid == "valid"

\* compute_confusion_matrix(model=model, data_loader=test_loader, ...)
cm_loader_arg == "test"

\* train_model stepping a schedule that raises the rate back to its start
EpochEndScheduleRestart(sched, lr, valid_acc) ==
    [sched |-> sched, lr |-> IF valid_acc = 0 THEN lr ELSE lr + InitialLr]

\* train_model, end of an epoch: scheduler.step(valid_acc_list[-1]) if a scheduler
\* was passed, nothing otherwise
EpochEndSchedule(sched, lr, valid_acc) ==
    IF scheduler_arg
    THEN SchedulerStep(sched, lr, valid_acc)
    ELSE [sched |-> sched, lr |-> lr]

NoModel == [built |-> FALSE, grayscale |-> FALSE, num_classes |-> 0,
            params |-> 0, training |-> FALSE]

InitCall ==
    /\ call_x = ErrT
    /\ call_feat = ErrT
    /\ call_out = ErrT
    /\ memo = {}

InitCm ==
    /\ cm_test = <<>>
    /\ cm_valid = <<>>
    /\ cm_pred = <<>>

InitTrain ==
    /\ epoch = 0
    /\ batch_idx = 0
    /\ logits = ErrT
    /\ minibatch_loss_list = <<>>
    /\ train_acc_list = <<>>
    /\ valid_acc_list = <<>>

Init ==
    /\ pc = "load"
    /\ model = NoModel
    /\ optimizer = [lr |-> 0]
    /\ scheduler = NewScheduler
    /\ InitTrain
    /\ mat = ZeroMat
    /\ stages = <<>>
    /\ InitCall
    /\ InitCm

\* lines 36-40: train_loader, valid_loader, test_loader = get_dataloaders_mnist(...)
LoadData ==
    /\ pc = "load"
    /\ pc' = After("load")
    /\ stages' = Append(stages, "dataset")
    /\ UNCHANGED <<model, optimizer, scheduler, trainVars, mat, callVars, cmVars>>

\* lines 43-47: the first training batch is printed
CheckBatch ==
    /\ pc = "check"
    /\ Batch("train", 1).x.shape = <<ExamplesPerBatch, 1, ResizeTo, ResizeTo>>
    /\ pc' = After("check")
    /\ UNCHANGED <<model, optimizer, scheduler, trainVars, mat, stages, callVars, cmVars>>

\* lines 89-90: model = LeNet5(grayscale=True, num_classes=10), randomly initialised
ConstructModel ==
    /\ pc = "construct"
    /\ \E init \in 0..(DigestMod - 1) : model' = LeNet5(NumClasses, TRUE, init)
    /\ pc' = After("construct")
    /\ stages' = Append(stages, "model")
    /\ UNCHANGED <<optimizer, scheduler, trainVars, mat, callVars, cmVars>>

\* lines 92-100: the SGD optimizer and the plateau scheduler over it
ConstructOptimizer ==
    /\ pc = "optimizer"
    /\ optimizer' = [lr |-> InitialLr]
    /\ scheduler' = NewScheduler
    /\ pc' = IF num_epochs > 0 THEN After("optimizer") ELSE After("train")
    /\ UNCHANGED <<model, trainVars, mat, stages, callVars, cmVars>>

\* train_model, one batch: model.train(); logits = model(features)
TrainForward ==
    /\ pc = "train"
    /\ batch_idx < LoaderLen(train_loader_arg)
    /\ \E r \in {forward([model EXCEPT !.training = TRUE],
                          Batch(train_loader_arg, batch_idx + 1).x)} :
          /\ logits' = r.logits
          /\ model' = r.self
    /\ pc' = "step"
    /\ UNCHANGED <<optimizer, scheduler, epoch, batch_idx, minibatch_loss_list,
                   train_acc_list, valid_acc_list, mat, stages, callVars, cmVars>>

\* train_model, one batch: loss, backward, optimizer.step(), the loss appended
TrainStep ==
    /\ pc = "step"
    /\ \E loss \in {CrossEntropy(logits, Batch(train_loader_arg, batch_idx + 1).y)} :
          /\ model' = [model EXCEPT !.params = SGDStep(model.params, loss, optimizer.lr)]
          /\ minibatch_loss_list' = Append(minibatch_loss_list, loss)
    /\ batch_idx' = batch_idx + 1
    /\ pc' = "train"
    /\ UNCHANGED <<optimizer, scheduler, epoch, logits, train_acc_list, valid_acc_list,
                   mat, stages, callVars, cmVars>>

\* train_model, after the epoch's batches: both accuracies appended, the scheduler
\* stepped when one was passed; after the last epoch train_model returns
EpochEnd ==
    /\ pc = "train"
    /\ batch_idx = LoaderLen(train_loader_arg)
    /\ \E tr \in {EvalLoader([model EXCEPT !.training = FALSE], train_loader_arg, 1)} :
       \E va \in {EvalLoader(tr.self, "valid", 1)} :
       \E valid_acc \in {Accuracy(va.pred, va.target)} :
       \E stepped \in {EpochEndSchedule(scheduler, optimizer.lr, valid_acc)} :
          /\ model' = va.self
          /\ train_acc_list' = Append(train_acc_list, Accuracy(tr.pred, tr.target))
          /\ valid_acc_list' = Append(valid_acc_list, valid_acc)
          /\ scheduler' = stepped.sched
          /\ optimizer' = [lr |-> stepped.lr]
    /\ epoch' = epoch + 1
    /\ batch_idx' = 0
    /\ IF epoch + 1 >= num_epochs
       THEN pc' = After("train") /\ stages' = Append(stages, "train")
       ELSE pc' = "train" /\ UNCHANGED stages
    /\ UNCHANGED <<logits, minibatch_loss_list, mat, callVars, cmVars>>

\* lines 114-119: plot_training_loss(minibatch_loss_list, NUM_EPOCHS, len(train_loader))
PlotTrainingLoss ==
    /\ pc = "plot_loss"
    /\ pc' = After("plot_loss")
    /\ stages' = Append(stages, "plot_training_loss")
    /\ UNCHANGED <<model, optimizer, scheduler, trainVars, mat, callVars, cmVars>>

\* lines 121-125: plot_accuracy(train_acc_list, valid_acc_list)
PlotAccuracy ==
    /\ pc = "plot_acc"
    /\ pc' = After("plot_acc")
    /\ stages' = Append(stages, "plot_accuracy")
    /\ UNCHANGED <<model, optimizer, scheduler, trainVars, mat, callVars, cmVars>>

\* lines 127-128: model.cpu(); show_examples(model, test_loader) predicts one batch
ShowExamples ==
    /\ pc = "show_examples"
    /\ model' = forward([model EXCEPT !.training = FALSE], Batch("test", 1).x).self
    /\ pc' = After("show_examples")
    /\ stages' = Append(stages, "show_examples")
    /\ UNCHANGED <<optimizer, scheduler, trainVars, mat, callVars, cmVars>>

\* line 141: mat = compute_confusion_matrix(model, test_loader, cpu)
ComputeConfusionMatrix ==
    /\ pc = "confusion"
    /\ \E r \in {EvalLoader(model, cm_loader_arg, 1)} :
          /\ model' = r.self
          /\ mat' = ConfusionMatrix(r.pred, r.target)
    /\ pc' = After("confusion")
    /\ stages' = Append(stages, "compute_confusion_matrix")
    /\ UNCHANGED <<optimizer, scheduler, trainVars, callVars, cmVars>>

\* lines 142-143: plot_confusion_matrix(mat, class_names)
PlotConfusionMatrix ==
    /\ pc = "plot_cm"
    /\ pc' = After("plot_cm")
    /\ stages' = Append(stages, "plot_confusion_matrix")
    /\ UNCHANGED <<model, optimizer, scheduler, trainVars, mat, callVars, cmVars>>

Next ==
    \/ LoadData
    \/ CheckBatch
    \/ ConstructModel
    \/ ConstructOptimizer
    \/ TrainForward
    \/ TrainStep
    \/ EpochEnd
    \/ PlotTrainingLoss
    \/ PlotAccuracy
    \/ ShowExamples
    \/ ComputeConfusionMatrix
    \/ PlotConfusionMatrix

Spec == Init /\ [][Next]_vars

\* the script runs each statement to completion and then the next one
FairSpec == Spec /\ WF_vars(Next)

----------------------------------------------------------------------------
(* LeNet5.forward called on its own, over input shapes *)

ClassCounts == {2, NumClasses}

InitModelDefaults ==
    /\ optimizer = [lr |-> 0]
    /\ scheduler = NewScheduler
    /\ InitTrain
    /\ mat = ZeroMat
    /\ stages = <<>>

InitShape ==
    /\ pc = "forward"
    /\ model \in {LeNet5(nc, g, 0) : nc \in ClassCounts, g \in BOOLEAN}
    /\ InitModelDefaults
    /\ \E B \in 1..MaxBatch, C \in 1..3, H \in 1..MaxH, W \in 1..MaxW :
          call_x = Tensor(<<B, C, H, W>>, [i \in 1..B |-> 0])
    /\ call_feat = ErrT
    /\ call_out = ErrT
    /\ memo = {}
    /\ InitCm

\* logits = model(x) for a batch x of any size, channel count, height and width
ForwardCall ==
    /\ pc = "forward"
    /\ \E r \in {forward(model, call_x)} :
          /\ call_feat' = r.feat
          /\ call_out' = r.logits
          /\ model' = r.self
    /\ pc' = "returned"
    /\ UNCHANGED <<optimizer, scheduler, trainVars, mat, stages, call_x, memo, cmVars>>

NextShape == ForwardCall

SpecShape == InitShape /\ [][NextShape]_vars

----------------------------------------------------------------------------
(* LeNet5.forward called repeatedly, between mode switches and updates *)

\* at most this many calls are remembered
MaxCalls == 2

InitForward ==
    /\ pc = "forward"
    /\ \E init \in 0..MaxParams : model = LeNet5(NumClasses, TRUE, init)
    /\ InitModelDefaults
    /\ InitCall
    /\ InitCm

\* logits = model(x); the call may be remembered
RepeatedCall ==
    /\ pc = "forward"
    /\ \E pix \in 0..MaxPix, remember \in BOOLEAN :
          LET x == Tensor(<<1, in_channels(model.grayscale), ResizeTo, ResizeTo>>, <<pix>>)
              r == forward(model, x)
              call == [params |-> model.params, training |-> model.training,
                       x |-> x, logits |-> r.logits]
          IN  /\ model' = r.self
              /\ memo' = IF remember /\ Cardinality(memo) < MaxCalls
                         THEN memo \cup {call} ELSE memo
    /\ UNCHANGED <<pc, optimizer, scheduler, trainVars, mat, stages,
                   call_x, call_feat, call_out, cmVars>>

\* model.train() or model.eval()
SetMode ==
    /\ pc = "forward"
    /\ \E mode \in BOOLEAN : model' = [model EXCEPT !.training = mode]
    /\ UNCHANGED <<pc, optimizer, scheduler, trainVars, mat, stages, callVars, cmVars>>

\* an optimizer step between two calls
SetParams ==
    /\ pc = "forward"
    /\ \E p \in 0..MaxParams : model' = [model EXCEPT !.params = p]
    /\ UNCHANGED <<pc, optimizer, scheduler, trainVars, mat, stages, callVars, cmVars>>

NextForward ==
    \/ RepeatedCall
    \/ SetMode
    \/ SetParams

SpecForward == InitForward /\ [][NextForward]_vars

----------------------------------------------------------------------------
(* compute_confusion_matrix called on its own, over labels and predictions *)

DataLabels == {0, 4, NumClasses - 1}

LabelSeqs(n) == UNION {[1..k -> DataLabels] : k \in 1..n}

InitConfusion ==
    /\ pc = "confusion"
    /\ model = LeNet5(NumClasses, TRUE, 0)
    /\ InitModelDefaults
    /\ InitCall
    /\ cm_test \in LabelSeqs(MaxTest)
    /\ cm_valid \in [1..1 -> DataLabels]
    /\ cm_pred = <<>>

\* the labels of the loader a call is given
LoaderTargets(split) == IF split = "test" THEN cm_test ELSE cm_valid

\* mat = compute_confusion_matrix(model, data_loader): whatever the model predicts
ConfusionCall ==
    /\ pc = "confusion"
    /\ \E pred \in [1..Len(LoaderTargets(cm_loader_arg)) -> Classes] :
          /\ cm_pred' = pred
          /\ mat' = ConfusionMatrix(pred, LoaderTargets(cm_loader_arg))
    /\ pc' = "plot_cm"
    /\ UNCHANGED <<model, optimizer, scheduler, trainVars, stages, callVars,
                   cm_test, cm_valid>>

NextConfusion == ConfusionCall

SpecConfusion == InitConfusion /\ [][NextConfusion]_vars

----------------------------------------------------------------------------
(* Properties *)

TrainPcs == {"train", "step"}
PostTrainPcs == {"plot_loss", "plot_acc", "show_examples", "confusion", "plot_cm", "done"}
TrainReturned == pc \in PostTrainPcs

\* the rate the configured plateau schedule leaves after being stepped with each
\* accuracy of accs in turn
RECURSIVE PlateauLr(_, _, _)
PlateauLr(sched, lr, accs) ==
    IF accs = <<>> THEN lr
    ELSE LET r == SchedulerStep(sched, lr, Head(accs))
         IN  PlateauLr(r.sched, r.lr, Tail(accs))

\* C1: at the end of every epoch the optimizer's learning rate is the one the plateau
\* scheduler of the entry point gives when stepped with that epoch's validation
\* accuracy: a tenth of the rate once the accuracy has not improved for more than
\* the patience window
C1_SchedulerStepped ==
    pc \in TrainPcs \cup PostTrainPcs =>
        optimizer.lr = PlateauLr(NewScheduler, InitialLr, valid_acc_list)

\* C2: during and after training the optimizer's learning rate never increases from
\* one state to the next, and never exceeds the 0.1 it starts from
C2_LrNeverIncreases ==
    [][(pc \in TrainPcs \cup PostTrainPcs) =>
          (optimizer'.lr <= optimizer.lr /\ optimizer'.lr <= InitialLr)]_vars

C2_Witness ==
    /\ pc = "train"
    /\ epoch >= Patience + 2
    /\ optimizer.lr = InitialLr
    /\ \E i \in 1..Len(valid_acc_list) : valid_acc_list[i] > 0

GrowsByAppend(old, new) ==
    \/ new = old
    \/ Len(new) = Len(old) + 1 /\ SubSeq(new, 1, Len(old)) = old

\* C3: when train_model has returned the loss history has NUM_EPOCHS * len(train_loader)
\* entries and both accuracy histories NUM_EPOCHS entries; every step leaves each
\* history as it is or appends one entry to it, the loss history at a batch and the
\* accuracy histories together at the end of an epoch
C3_HistoryLengths ==
    /\ [](TrainReturned =>
            /\ Len(minibatch_loss_list) = NUM_EPOCHS * LoaderLen("train")
            /\ Len(train_acc_list) = NUM_EPOCHS
            /\ Len(valid_acc_list) = NUM_EPOCHS)
    /\ [][/\ GrowsByAppend(minibatch_loss_list, minibatch_loss_list')
          /\ GrowsByAppend(train_acc_list, train_acc_list')
          /\ GrowsByAppend(valid_acc_list, valid_acc_list')
          /\ Len(train_acc_list') = Len(valid_acc_list')
          /\ (minibatch_loss_list' # minibatch_loss_list => pc = "step")
          /\ (train_acc_list' # train_acc_list =>
                 Len(minibatch_loss_list) = Len(train_acc_list') * LoaderLen("train"))]_vars

C3_Witness ==
    /\ TrainReturned
    /\ Len(minibatch_loss_list) = NUM_EPOCHS * TrainBatches
    /\ Len(train_acc_list) = NUM_EPOCHS

\* the stage each completed step belongs to: 1 dataset, 2 model, 3 training,
\* 4 evaluation, 5 plotting
StageRank(stage) ==
    CASE stage = "dataset" -> 1
      [] stage = "model" -> 2
      [] stage = "train" -> 3
      [] stage = "compute_confusion_matrix" -> 4
      [] OTHER -> 5

\* C4 as stated: the stages run in the order dataset, model, training, evaluation,
\* plotting, so the confusion matrix is computed before any plotting step
C4_EvaluationBeforePlotting ==
    \A i \in 1..Len(stages) : \A j \in i..Len(stages) :
        StageRank(stages[i]) <= StageRank(stages[j])

ScriptStages ==
    << "dataset", "model", "train", "plot_training_loss", "plot_accuracy",
       "show_examples", "compute_confusion_matrix", "plot_confusion_matrix" >>

\* C4 amended: the steps run once each in the order dataset, model, training, loss
\* plot, accuracy plot, example display, confusion-matrix computation, confusion-matrix
\* plot: the confusion matrix is computed after training and after the loss and
\* accuracy plots, and before its own plot
C4_StageOrder ==
    /\ Len(stages) <= Len(ScriptStages)
    /\ stages = SubSeq(ScriptStages, 1, Len(stages))
    /\ (pc = "done" => stages = ScriptStages)
    /\ (pc \in TrainPcs => stages = SubSeq(ScriptStages, 1, 2))

C4_Witness ==
    /\ pc = "done"
    /\ stages = ScriptStages
    /\ epoch = NUM_EPOCHS

\* C5: for a batch of B >= 1 images with the channel count of the model's grayscale
\* setting and size 32x32, forward returns logits of shape (B, num_classes)
C5_LogitsShape ==
    ( /\ pc = "returned"
      /\ call_x.shape[2] = (IF model.grayscale THEN 1 ELSE 3)
      /\ call_x.shape[3] = ResizeTo
      /\ call_x.shape[4] = ResizeTo )
    => /\ call_out.ok
       /\ call_out.shape = <<call_x.shape[1], model.num_classes>>

C5_Witness ==
    /\ pc = "returned"
    /\ call_x.shape = <<MaxBatch, 3, ResizeTo, ResizeTo>>
    /\ ~model.grayscale
    /\ call_out.ok
    /\ call_out.shape = <<MaxBatch, NumClasses>>

RowSum(m, t) ==
    LET RECURSIVE Sum(_)
        Sum(p) == IF p < 0 THEN 0 ELSE m[t][p] + Sum(p - 1)
    IN  Sum(NumClasses - 1)

TotalSum(m) ==
    LET RECURSIVE Sum(_)
        Sum(t) == IF t < 0 THEN 0 ELSE RowSum(m, t) + Sum(t - 1)
    IN  Sum(NumClasses - 1)

\* C6: after compute_confusion_matrix the matrix is 10x10, the row of every class sums
\* to the number of test examples with that label, and the whole matrix sums to the
\* size of the test set
C6_RowSums ==
    pc = "plot_cm" =>
        /\ DOMAIN mat = 0..9
        /\ \A t \in DOMAIN mat : DOMAIN mat[t] = 0..9
        /\ \A t \in Classes :
              RowSum(mat, t) = Cardinality({i \in 1..Len(cm_test) : cm_test[i] = t})
        /\ TotalSum(mat) = Len(cm_test)

C6_Witness ==
    /\ pc = "plot_cm"
    /\ Len(cm_test) = MaxTest
    /\ cm_test[1] = cm_test[2]
    /\ cm_pred[1] # cm_test[1]
    /\ cm_pred[2] = cm_test[2]
    /\ RowSum(mat, cm_test[1]) = 2

\* C7: once the model is constructed its parameters change only in the optimizer step
\* of a training batch, and from the return of train_model on (plots, example display,
\* confusion matrix) neither the parameters nor anything training keeps changes
C7_ParamsChangeOnlyInStep ==
    [][/\ (model.built /\ model'.params # model.params => pc = "step")
       /\ (TrainReturned =>
              /\ model'.params = model.params
              /\ UNCHANGED <<optimizer, scheduler, trainVars>>)]_vars

C7_Witness ==
    /\ pc = "done"
    /\ model.built
    /\ model.params >= NUM_EPOCHS * TrainBatches
    /\ \E t \in Classes, p \in Classes : mat[t][p] > 0

\* C8: two calls of forward with the same parameters and the same input return the
\* same logits, whatever mode the module is in and whatever ran in between
C8_ForwardDeterministic ==
    \A a \in memo : \A b \in memo :
        (a.params = b.params /\ a.x = b.x) => a.logits = b.logits

C8_Witness ==
    \E a \in memo : \E b \in memo :
        /\ a.params = b.params
        /\ a.x = b.x
        /\ a.training # b.training
        /\ a.logits.ok
        /\ model.params # a.params

\* C9: the training loop ends: train_model returns, after exactly NUM_EPOCHS epochs of
\* len(train_loader) batches each, a batch's step following its forward pass; it is
\* left only at the end of the last epoch, and the script then runs to its end
C9_TrainingTerminates ==
    /\ <>TrainReturned
    /\ <>(pc = "done")
    /\ [](TrainReturned => epoch = NUM_EPOCHS /\ batch_idx = 0)
    /\ [][(pc \in TrainPcs) =>
            /\ (pc' \notin TrainPcs =>
                   /\ epoch' = NUM_EPOCHS
                   /\ Len(minibatch_loss_list') = NUM_EPOCHS * LoaderLen("train"))
            /\ (pc = "step" => pc' = "train" /\ batch_idx' = batch_idx + 1)
            /\ (batch_idx' # batch_idx /\ pc = "train" => batch_idx' = 0 /\ epoch' = epoch + 1)]_vars

C9_Witness ==
    /\ pc = "plot_loss"
    /\ epoch = NUM_EPOCHS
    /\ Len(valid_acc_list) = NUM_EPOCHS

\* floor((floor((h - 4) / 2) - 4) / 2)
Spatial(h) == (((h - 4) \div 2) - 4) \div 2

ChannelsMatch == call_x.shape[2] = (IF model.grayscale THEN 1 ELSE 3)

\* C10 as stated: the feature extractor yields 16 channels of Spatial(H) x Spatial(W),
\* and forward returns logits exactly when both are 5
C10_LogitsIffFiveByFive ==
    (pc = "returned" /\ ChannelsMatch) =>
        /\ (call_feat.ok =>
               call_feat.shape = <<call_x.shape[1], 16,
                                   Spatial(call_x.shape[3]), Spatial(call_x.shape[4])>>)
        /\ (call_out.ok <=> Spatial(call_x.shape[3]) = 5 /\ Spatial(call_x.shape[4]) = 5)

\* C10 amended: the feature extractor succeeds exactly when Spatial(H) and Spatial(W)
\* are at least 1 and then yields 16 channels of Spatial(H) x Spatial(W); forward
\* returns logits exactly when it succeeds and 16 * Spatial(H) * Spatial(W) = 400
\* (5x5, 1x25 or 25x1), which holds for 32x32, and fails otherwise
C10_LogitsIffFeatureCount ==
    (pc = "returned" /\ ChannelsMatch) =>
        LET h == Spatial(call_x.shape[3])
            w == Spatial(call_x.shape[4])
        IN  /\ (call_feat.ok <=> h >= 1 /\ w >= 1)
            /\ (call_feat.ok => call_feat.shape = <<call_x.shape[1], 16, h, w>>)
            /\ (call_out.ok <=> h >= 1 /\ w >= 1 /\ 16 * h * w = 16 * 5 * 5)
            /\ (call_out.ok => call_out.shape = <<call_x.shape[1], model.num_classes>>)
            /\ (call_x.shape[3] = ResizeTo /\ call_x.shape[4] = ResizeTo => h = 5 /\ w = 5)

C10_Witness ==
    /\ pc = "returned"
    /\ ChannelsMatch
    /\ Spatial(call_x.shape[3]) = 1
    /\ Spatial(call_x.shape[4]) = 25
    /\ call_feat.shape = <<call_x.shape[1], 16, 1, 25>>
    /\ call_out.ok

====
